---------------------------- MODULE Spec2Model ----------------------------
(***************************************************************************)
(* A model of subway_bot.py: the station table loaded at import time       *)
(* (load_stations), the tool get_subway_time (line check, station          *)
(* resolution, feed fetch, arrival extraction) and the conversation loop   *)
(* chat_with_mta that dispatches the tool calls of a completion reply.     *)
(*                                                                         *)
(* Text is modelled as a sequence of one-character strings, so that        *)
(* upper(), startswith(), endswith() and str.contains() are computed and   *)
(* not assumed.  An arrival line "Northbound in 12 min" is modelled as the *)
(* sequence of its whitespace-separated words, the number being the        *)
(* sequence of its decimal digits; none of the words can hold a blank, so  *)
(* x.split() is the sequence itself.  time.time() is taken in whole        *)
(* seconds.                                                                *)
(***************************************************************************)
EXTENDS Integers, Sequences, FiniteSets, TLC

\* ------------------------------------------------------------------ bounds

\* Rows of the station table in the resolver inputs.
MaxRows == 2
\* Stop time updates of a feed drawn from the full update alphabet.
MaxShort == 2
\* Stop time updates of a feed drawn from the small update alphabet.
MaxLong == 6
\* The reference time (time.time()) of a call, in seconds.
Now == 1000
\* Tool calls in one completion reply.
MaxCalls == 2
\* User turns of one conversation.
MaxTurns == 2

\* arrivals[:5]
Limit == 5

\* -------------------------------------------------------------------- text

LowerLetters ==
    << "a","b","c","d","e","f","g","h","i","j","k","l","m",
       "n","o","p","q","r","s","t","u","v","w","x","y","z" >>

UpperLetters ==
    << "A","B","C","D","E","F","G","H","I","J","K","L","M",
       "N","O","P","Q","R","S","T","U","V","W","X","Y","Z" >>

\* str.upper() on one character.
UpperChar(c) ==
    IF \E i \in 1..26 : LowerLetters[i] = c
    THEN UpperLetters[CHOOSE i \in 1..26 : LowerLetters[i] = c]
    ELSE c

\* The case folding of re.IGNORECASE on one character.
LowerChar(c) ==
    IF \E i \in 1..26 : UpperLetters[i] = c
    THEN LowerLetters[CHOOSE i \in 1..26 : UpperLetters[i] = c]
    ELSE c

\* line.upper()
Upper(s) ==
    [i \in 1..Len(s) |-> UpperChar(s[i])]

\* s.startswith(p)
StartsWith(s, p) ==
    /\ Len(p) <= Len(s)
    /\ \A i \in 1..Len(p) : s[i] = p[i]

\* s.endswith(c) for a one-character c
EndsWith(s, c) ==
    /\ Len(s) >= 1
    /\ s[Len(s)] = c

HasChar(s, c) ==
    \E i \in 1..Len(s) : s[i] = c

\* Plain substring containment, with or without case folding.
ContainsLiteral(s, p, fold) ==
    \E k \in 0..(Len(s) - Len(p)) :
        \A i \in 1..Len(p) :
            IF fold THEN LowerChar(s[k + i]) = LowerChar(p[i])
                    ELSE s[k + i] = p[i]

\* re.compile(pat) raises re.error: an opening parenthesis that is never
\* closed, or a closing one that was never opened.  (Patterns holding both,
\* or any other metacharacter than "." and the parentheses, are not among
\* the inputs of this model.)
RegexError(pat) ==
    \/ HasChar(pat, "(") /\ ~HasChar(pat, ")")
    \/ HasChar(pat, ")") /\ ~HasChar(pat, "(")

\* re.search(pat, s) for a pattern that compiles: every character of the
\* pattern stands for itself, except "." which stands for any character.
RegexSearch(s, pat, fold) ==
    \E k \in 0..(Len(s) - Len(pat)) :
        \A i \in 1..Len(pat) :
            \/ pat[i] = "."
            \/ IF fold THEN LowerChar(s[k + i]) = LowerChar(pat[i])
                       ELSE s[k + i] = pat[i]

Digits ==
    << "0","1","2","3","4","5","6","7","8","9" >>

RECURSIVE DecStr(_)
\* str(n) of a natural number, as formatted by the f-string of line 121.
DecStr(n) ==
    IF n < 10 THEN << Digits[n + 1] >>
    ELSE Append(DecStr(n \div 10), Digits[(n % 10) + 1])

DigitValue(c) ==
    (CHOOSE i \in 1..10 : Digits[i] = c) - 1

RECURSIVE ParseInt(_)
\* int(s) of a string of decimal digits.
ParseInt(ds) ==
    IF Len(ds) = 0 THEN 0
    ELSE 10 * ParseInt(SubSeq(ds, 1, Len(ds) - 1)) + DigitValue(ds[Len(ds)])

AllDigits(s) ==
    /\ Len(s) >= 1
    /\ \A i \in 1..Len(s) : \E d \in 1..10 : Digits[d] = s[i]

\* All sequences over S of length at most n.
SeqUpTo(S, n) ==
    UNION {[1..k -> S] : k \in 0..n}

\* -------------------------------------------------------------- FEED_URLS

\* FEED_URLS: the line codes and the feed each is read from.
FEED_URLS ==
    [c \in {"1","2","3","4","5","6","S"} |-> "gtfs"] @@
    [c \in {"A","C","E"} |-> "gtfs-ace"] @@
    [c \in {"N","Q","R","W"} |-> "gtfs-nqrw"] @@
    [c \in {"B","D","F","M"} |-> "gtfs-bdfm"] @@
    [c \in {"L"} |-> "gtfs-l"] @@
    [c \in {"G"} |-> "gtfs-g"] @@
    [c \in {"J","Z"} |-> "gtfs-jz"] @@
    [c \in {"7"} |-> "gtfs-7"]

\* Mutant of FeedUrlGet: FEED_URLS.get(line, <the first feed>), a default for
\* an unknown line.
FeedUrlGet_Default(line) ==
    IF Len(line) = 1 /\ line[1] \in DOMAIN FEED_URLS
    THEN FEED_URLS[line[1]]
    ELSE "gtfs"

\* FEED_URLS.get(line): "" stands for None.
FeedUrlGet(line) ==
    IF Len(line) = 1 /\ line[1] \in DOMAIN FEED_URLS
    THEN FEED_URLS[line[1]]
    ELSE ""

\* ------------------------------------------------------- the station table

\* A missing cell (NaN) of the table.
NA ==
    << "<NA>" >>

AllCols ==
    {"stop_id", "stop_name", "routes"}

\* pd.DataFrame(): no rows and no columns.
EmptyDataFrame ==
    [cols |-> {}, rows |-> << >>]

\* Whether pandas holds the column as text, so that its .str accessor
\* exists: read_csv leaves a column as text unless every cell of it is
\* missing or a number; a column of no rows counts as text.
IsTextColumn(df, col) ==
    \/ Len(df.rows) = 0
    \/ \E i \in 1..Len(df.rows) :
          /\ df.rows[i][col] # NA
          /\ ~AllDigits(df.rows[i][col])

RECURSIVE Filter(_, _)
\* rows[mask]: the rows whose index is in keep, in the table's order.
Filter(rows, keep) ==
    IF Len(rows) = 0 THEN << >>
    ELSE LET rest == Filter(SubSeq(rows, 1, Len(rows) - 1), keep)
         IN  IF Len(rows) \in keep THEN Append(rest, rows[Len(rows)]) ELSE rest

\* The exception raised by
\*   STATIONS_DF['stop_name'].str.contains(station_name, case=False, na=False)
\* ("" when it raises none).
NameFilterRaises(df, station_name) ==
    IF "stop_name" \notin df.cols THEN "KeyError"
    ELSE IF ~IsTextColumn(df, "stop_name") THEN "AttributeError"
    ELSE IF RegexError(station_name) THEN "re.error"
    ELSE ""

\* STATIONS_DF[STATIONS_DF['stop_name'].str.contains(station_name,
\*             case=False, na=False)]
NameMatch(df, station_name) ==
    Filter(df.rows,
           {i \in 1..Len(df.rows) :
               /\ df.rows[i].stop_name # NA
               /\ RegexSearch(df.rows[i].stop_name, station_name, TRUE)})

\* The exception raised by match['routes'].str.contains(line, na=False).
RouteFilterRaises(df, line) ==
    IF "routes" \notin df.cols THEN "KeyError"
    ELSE IF ~IsTextColumn(df, "routes") THEN "AttributeError"
    ELSE IF RegexError(line) THEN "re.error"
    ELSE ""

\* match[match['routes'].str.contains(line, na=False)]
RouteMatch(match, line) ==
    Filter(match,
           {i \in 1..Len(match) :
               /\ match[i].routes # NA
               /\ RegexSearch(match[i].routes, line, FALSE)})

\* Lines 91-94: the narrowed candidates, or the name matches again when the
\* narrowing leaves none.
Candidates(df, line, station_name) ==
    LET match == RouteMatch(NameMatch(df, station_name), line)
    IN  IF Len(match) = 0 THEN NameMatch(df, station_name) ELSE match

\* The exception raised by match.iloc[0]['stop_id'].  (The stop_id cells of
\* the inputs are all present, so str(...) of line 97 is the cell itself.)
StopIdRaises(df) ==
    IF "stop_id" \notin df.cols THEN "KeyError" ELSE ""

\* ---------------------------------------------------------------- the feed

RECURSIVE StopTimeUpdates(_)
\* The stop time updates the two loops of lines 112-114 visit, in order:
\* those of every entity that has a trip_update.
StopTimeUpdates(feed) ==
    IF Len(feed) = 0 THEN << >>
    ELSE StopTimeUpdates(SubSeq(feed, 1, Len(feed) - 1)) \o
         (IF feed[Len(feed)].has_trip_update
          THEN feed[Len(feed)].stop_time_update
          ELSE << >>)

\* Mutant of Qualifies: arrival_time >= current_time.
Qualifies_NotStrict(update, stop_id, now) ==
    /\ StartsWith(update.stop_id, stop_id)
    /\ update.arrival_time >= now

\* Lines 116-118: the update is for our stop and lies ahead.
Qualifies(update, stop_id, now) ==
    /\ StartsWith(update.stop_id, stop_id)
    /\ update.arrival_time > now

\* Line 119.
Direction(update) ==
    IF EndsWith(update.stop_id, "N") THEN "Northbound" ELSE "Southbound"

\* Mutant of Minutes: round(...) in place of int(...).
Minutes_Rounded(update, now) ==
    (update.arrival_time - now + 30) \div 60

\* Line 120: int((arrival_time - current_time) / 60), of a positive difference.
Minutes(update, now) ==
    (update.arrival_time - now) \div 60

\* Line 121: f"{direction} in {minutes} min", as its words.
ArrivalText(update, now) ==
    << Direction(update), "in", DecStr(Minutes(update, now)), "min" >>

RECURSIVE ParseUpdates(_, _, _)
\* Lines 108-121 over the updates ups: the arrival lines in feed order.  src
\* is not in the program: it is the position in the feed of the update a
\* line was made from.
ParseUpdates(ups, stop_id, now) ==
    IF Len(ups) = 0 THEN << >>
    ELSE LET rest == ParseUpdates(SubSeq(ups, 1, Len(ups) - 1), stop_id, now)
             u == ups[Len(ups)]
         IN  IF Qualifies(u, stop_id, now)
             THEN Append(rest, [text |-> ArrivalText(u, now), src |-> Len(ups)])
             ELSE rest

\* Mutant of SortKey: key=lambda x: x.split()[2], the number compared as
\* text ("10" before "2"); the key ranks the digit strings of up to three
\* digits in dictionary order.
SortKey_AsText(x) ==
    LET ds == x.text[3]
        rank(i) == IF i <= Len(ds) THEN DigitValue(ds[i]) + 1 ELSE 0
    IN  121 * rank(1) + 11 * rank(2) + rank(3)

\* Line 124: key=lambda x: int(x.split()[2])
SortKey(x) ==
    ParseInt(x.text[3])

\* Mutant of InsertSorted: x goes before the lines of its own key, which
\* reverses the feed order within one minute.
InsertSorted_Unstable(sorted, x) ==
    LET n == Cardinality({i \in 1..Len(sorted) : SortKey(sorted[i]) < SortKey(x)})
    IN  SubSeq(sorted, 1, n) \o << x >> \o SubSeq(sorted, n + 1, Len(sorted))

\* One step of the stable sort: x goes after every line whose key is not
\* greater than its own.
InsertSorted(sorted, x) ==
    LET n == Cardinality({i \in 1..Len(sorted) : SortKey(sorted[i]) <= SortKey(x)})
    IN  SubSeq(sorted, 1, n) \o << x >> \o SubSeq(sorted, n + 1, Len(sorted))

RECURSIVE SortArrivals(_)
\* Line 124: arrivals.sort(key=...), a stable sort by ascending key.
SortArrivals(arr) ==
    IF Len(arr) = 0 THEN << >>
    ELSE InsertSorted(SortArrivals(SubSeq(arr, 1, Len(arr) - 1)), arr[Len(arr)])

\* arrivals[:5]
Truncate(arr) ==
    SubSeq(arr, 1, IF Len(arr) < Limit THEN Len(arr) ELSE Limit)

\* ------------------------------------------------------------- the results

NoResult ==
    [kind |-> "none", line |-> << >>, station |-> << >>, arrivals |-> << >>]

\* Line 81: {"error": "Line {line} not supported or invalid."}
UnsupportedLine(line) ==
    [kind |-> "unsupported_line", line |-> line, station |-> << >>, arrivals |-> << >>]

\* Line 88: {"error": "Station '{station_name}' not found."}
StationNotFound(station_name) ==
    [kind |-> "station_not_found", line |-> << >>, station |-> station_name,
     arrivals |-> << >>]

\* Line 106: {"error": "Failed to fetch MTA data: ..."}
FetchFailed ==
    [kind |-> "fetch_failed", line |-> << >>, station |-> << >>, arrivals |-> << >>]

\* Line 127: {"status": "No upcoming '{line}' trains found for {official_name}."}
NoArrivals(line, official_name) ==
    [kind |-> "no_arrivals", line |-> line, station |-> official_name,
     arrivals |-> << >>]

\* Lines 129-133: {"station": ..., "line": ..., "arrivals": arrivals[:5]}
Arrivals(line, official_name, arr) ==
    [kind |-> "arrivals", line |-> line, station |-> official_name,
     arrivals |-> Truncate(arr)]

\* Mutant of Finish: the check "if not arrivals" left out.
Finish_AlwaysList(line, official_name, arr) ==
    Arrivals(line, official_name, arr)

\* Lines 126-133.
Finish(line, official_name, arr) ==
    IF Len(arr) = 0 THEN NoArrivals(line, official_name)
    ELSE Arrivals(line, official_name, arr)

\* ------------------------------------------------------------------ state

VARIABLES
    stops_env,      \* what load_stations finds: stops.txt, or the download
    STATIONS_DF,    \* the module-level station table
    pc,             \* where get_subway_time stands
    line_arg,       \* the argument line
    station_name,   \* the argument station_name
    fetch_ok,       \* whether requests.get and ParseFromString succeed
    payload,        \* the feed message the response decodes to
    current_time,   \* time.time() at line 109
    line,           \* line after line.upper()
    stop_id,        \* str(match.iloc[0]['stop_id'])
    official_name,  \* match.iloc[0]['stop_name']
    arrivals,       \* the list arrivals
    result,         \* the value returned
    raised,         \* the exception that left get_subway_time, "" if none
    lookups,        \* how many times the station table was searched
    fetches,        \* how many times the feed was requested
    messages,       \* chat_with_mta: the list messages
    chat_pc,        \* chat_with_mta: where the loop stands
    tool_calls,     \* chat_with_mta: response_message.tool_calls
    call_index,     \* chat_with_mta: the tool call the for loop is at
    sent,           \* the messages of the last follow-up completion request
    turns           \* user turns so far

toolVars ==
    << stops_env, STATIONS_DF, pc, line_arg, station_name, fetch_ok, payload,
       current_time, line, stop_id, official_name, arrivals, result, raised,
       lookups, fetches >>

chatVars ==
    << messages, chat_pc, tool_calls, call_index, sent, turns >>

vars ==
    << stops_env, STATIONS_DF, pc, line_arg, station_name, fetch_ok, payload,
       current_time, line, stop_id, official_name, arrivals, result, raised,
       lookups, fetches, messages, chat_pc, tool_calls, call_index, sent, turns >>

\* ----------------------------------------------------------------- inputs

UnionSq ==
    [stop_id   |-> << "6","3","5" >>,
     stop_name |-> << "U","n","i","o","n"," ","S","q" >>,
     routes    |-> << "4","5","6","L","N","Q","R" >>]

UnionSt ==
    [stop_id   |-> << "R","3","2" >>,
     stop_name |-> << "U","n","i","o","n"," ","S","t" >>,
     routes    |-> << "R" >>]

West4St ==
    [stop_id   |-> << "A","3","2" >>,
     stop_name |-> << "W","."," ","4"," ","S","t" >>,
     routes    |-> NA]

Unnamed ==
    [stop_id   |-> << "L","0","1" >>,
     stop_name |-> NA,
     routes    |-> << "L" >>]

StationPool ==
    {UnionSq, UnionSt, West4St, Unnamed}

\* Tables with the three columns.
FullTables ==
    {[cols |-> AllCols, rows |-> r] : r \in SeqUpTo(StationPool, MaxRows)}

\* A stops.txt without the routes column.
NoRoutesTable ==
    [cols |-> {"stop_id", "stop_name"},
     rows |-> << [UnionSq EXCEPT !.routes = NA] >>]

\* What load_stations can find: stops.txt present with some content, or
\* absent with the download succeeding or failing.
StopsEnvs ==
    {[file_exists |-> TRUE, download_ok |-> FALSE, csv |-> t] :
        t \in FullTables \cup {NoRoutesTable}}
    \cup
    {[file_exists |-> FALSE, download_ok |-> TRUE, csv |-> t] :
        t \in {[cols |-> AllCols, rows |-> r] : r \in SeqUpTo(StationPool, 1)}}
    \cup
    {[file_exists |-> FALSE, download_ok |-> FALSE, csv |-> EmptyDataFrame]}

LineArgs ==
    { << "L" >>, << "l" >>, << "X" >>, << "x" >>, << >> }

StationArgs ==
    { << "u","n","i","o","n" >>, << "S","T" >>, << "." >>, << "(" >>,
      << "z" >>, << >> }

FeedStopIds ==
    { << "6","3","5","N" >>, << "6","3","5","S" >>, << "6","3","5" >>,
      << "R","3","2","N" >> }

\* arrival.time of an update: 0 when the field is absent.
ArrivalTimes ==
    {0, Now - 60, Now, Now + 30, Now + 59, Now + 120, Now + 300, Now + 600}

UpdateAlphabet ==
    [stop_id : FeedStopIds, arrival_time : ArrivalTimes]

SmallAlphabet ==
    {[stop_id |-> << "6","3","5","N" >>, arrival_time |-> Now + 59],
     [stop_id |-> << "6","3","5","S" >>, arrival_time |-> Now + 30],
     [stop_id |-> << "6","3","5","N" >>, arrival_time |-> Now + 600]}

TripEntity(ups) ==
    [has_trip_update |-> TRUE, stop_time_update |-> ups]

\* An entity without a trip_update (a vehicle position, an alert).
OtherEntity ==
    [has_trip_update |-> FALSE, stop_time_update |-> << >>]

\* The scenario of the specification: 635N in 300 s, 635S in 120 s.
ScenarioFeed ==
    << TripEntity(<< [stop_id |-> << "6","3","5","N" >>, arrival_time |-> Now + 300],
                     [stop_id |-> << "6","3","5","S" >>, arrival_time |-> Now + 120] >>) >>

ShortFeeds ==
    {<< TripEntity(ups) >> : ups \in SeqUpTo(UpdateAlphabet, MaxShort)}

LongFeeds ==
    {<< TripEntity(ups) >> : ups \in SeqUpTo(SmallAlphabet, MaxLong)}

SplitFeeds ==
    {<< OtherEntity, TripEntity(<< u >>), TripEntity(<< v >>) >> :
        u \in SmallAlphabet, v \in SmallAlphabet}

\* The fixed environment of the extraction inputs and of the conversation.
UnionSqEnv ==
    [file_exists |-> TRUE, download_ok |-> FALSE,
     csv |-> [cols |-> AllCols, rows |-> << UnionSq >>]]

\* ------------------------------------------------------------------- Init

ChatIdle ==
    /\ messages = << >>
    /\ chat_pc = "off"
    /\ tool_calls = << >>
    /\ call_index = 0
    /\ sent = << >>
    /\ turns = 0

ToolLocalsInit ==
    /\ STATIONS_DF = EmptyDataFrame
    /\ current_time = Now
    /\ line = << >>
    /\ stop_id = << >>
    /\ official_name = << >>
    /\ arrivals = << >>
    /\ result = NoResult
    /\ raised = ""
    /\ lookups = 0
    /\ fetches = 0

\* Every table, line and station name, with a small choice of feeds.
ResolveInputs ==
    /\ stops_env \in StopsEnvs
    /\ line_arg \in LineArgs
    /\ station_name \in StationArgs
    /\ \/ fetch_ok = FALSE /\ payload = << >>
       \/ fetch_ok = TRUE /\ payload \in {<< >>, ScenarioFeed}

\* Every feed, with the table of the scenario.
ExtractInputs ==
    /\ stops_env = UnionSqEnv
    /\ line_arg = << "l" >>
    /\ station_name = << "u","n","i","o","n" >>
    /\ fetch_ok = TRUE
    /\ payload \in ShortFeeds \cup LongFeeds \cup SplitFeeds

Init ==
    /\ pc = "import"
    /\ ResolveInputs \/ ExtractInputs
    /\ ToolLocalsInit
    /\ ChatIdle

\* ----------------------------------------------------------------- actions

\* Lines 43-69: STATIONS_DF = load_stations().  A stops.txt that is present
\* is read as it is; an absent one is downloaded, and any failure of the
\* download leaves the frame without columns.  (A stops.txt that read_csv
\* cannot read ends the import and is not among the inputs.)
LoadStations ==
    /\ pc = "import"
    /\ STATIONS_DF' =
          IF stops_env.file_exists THEN stops_env.csv
          ELSE IF stops_env.download_ok THEN stops_env.csv
          ELSE EmptyDataFrame
    /\ pc' = "call"
    /\ UNCHANGED << stops_env, line_arg, station_name, fetch_ok, payload,
                    current_time, line, stop_id, official_name, arrivals,
                    result, raised, lookups, fetches >>
    /\ UNCHANGED chatVars

\* Lines 76-81: upper-case the line and look its feed up.
CheckLine ==
    /\ pc = "call"
    /\ line' = Upper(line_arg)
    /\ IF FeedUrlGet(Upper(line_arg)) = ""
       THEN /\ result' = UnsupportedLine(Upper(line_arg))
            /\ pc' = "done"
       ELSE /\ result' = result
            /\ pc' = "resolve"
    /\ UNCHANGED << stops_env, STATIONS_DF, line_arg, station_name, fetch_ok,
                    payload, current_time, stop_id, official_name, arrivals,
                    raised, lookups, fetches >>
    /\ UNCHANGED chatVars

\* What lines 85-98 end in: an exception, the not-found result, or the
\* first candidate.
Resolution(df, ln, name) ==
    IF NameFilterRaises(df, name) # ""
    THEN [outcome |-> "raise", exc |-> NameFilterRaises(df, name)]
    ELSE IF Len(NameMatch(df, name)) = 0
    THEN [outcome |-> "return", exc |-> ""]
    ELSE IF RouteFilterRaises(df, ln) # ""
    THEN [outcome |-> "raise", exc |-> RouteFilterRaises(df, ln)]
    ELSE IF StopIdRaises(df) # ""
    THEN [outcome |-> "raise", exc |-> StopIdRaises(df)]
    ELSE [outcome |-> "resolved", exc |-> ""]

\* Lines 85-98: resolve the station.
ResolveStation ==
    /\ pc = "resolve"
    /\ lookups' = lookups + 1
    /\ LET r == Resolution(STATIONS_DF, line, station_name)
       IN  CASE r.outcome = "raise" ->
                   /\ raised' = r.exc
                   /\ pc' = "raised"
                   /\ UNCHANGED << result, stop_id, official_name >>
             [] r.outcome = "return" ->
                   /\ result' = StationNotFound(station_name)
                   /\ pc' = "done"
                   /\ UNCHANGED << raised, stop_id, official_name >>
             [] OTHER ->
                   /\ stop_id' = Candidates(STATIONS_DF, line, station_name)[1].stop_id
                   /\ official_name' =
                         Candidates(STATIONS_DF, line, station_name)[1].stop_name
                   /\ pc' = "fetch"
                   /\ UNCHANGED << result, raised >>
    /\ UNCHANGED << stops_env, STATIONS_DF, line_arg, station_name, fetch_ok,
                    payload, current_time, line, arrivals, fetches >>
    /\ UNCHANGED chatVars

\* Lines 101-106: fetch and decode the feed.
FetchFeed ==
    /\ pc = "fetch"
    /\ fetches' = fetches + 1
    /\ IF fetch_ok
       THEN /\ pc' = "parse"
            /\ result' = result
       ELSE /\ pc' = "done"
            /\ result' = FetchFailed
    /\ UNCHANGED << stops_env, STATIONS_DF, line_arg, station_name, fetch_ok,
                    payload, current_time, line, stop_id, official_name,
                    arrivals, raised, lookups >>
    /\ UNCHANGED chatVars

\* Lines 108-124: collect the arrival lines and sort them.
ParseFeed ==
    /\ pc = "parse"
    /\ arrivals' = SortArrivals(
                      ParseUpdates(StopTimeUpdates(payload), stop_id, current_time))
    /\ pc' = "finish"
    /\ UNCHANGED << stops_env, STATIONS_DF, line_arg, station_name, fetch_ok,
                    payload, current_time, line, stop_id, official_name,
                    result, raised, lookups, fetches >>
    /\ UNCHANGED chatVars

\* Lines 126-133: the no-arrivals status, or the first five arrivals.
Return ==
    /\ pc = "finish"
    /\ result' = Finish(line, official_name, arrivals)
    /\ pc' = "done"
    /\ UNCHANGED << stops_env, STATIONS_DF, line_arg, station_name, fetch_ok,
                    payload, current_time, line, stop_id, official_name,
                    arrivals, raised, lookups, fetches >>
    /\ UNCHANGED chatVars

Next ==
    \/ LoadStations
    \/ CheckLine
    \/ ResolveStation
    \/ FetchFeed
    \/ ParseFeed
    \/ Return

Spec ==
    Init /\ [][Next]_vars

\* ------------------------------------------------------ the conversation

\* function_args.get(...) of a key the arguments do not hold.
None ==
    << "<None>" >>

\* Lines 72-133 as one call: what get_subway_time(ln, name) ends in, for the
\* table df, the fetch outcome ok, the feed and the time.
GetSubwayTime(df, ln, name, ok, feed, now) ==
    IF ln = None
    THEN [outcome |-> "raise", exc |-> "AttributeError", result |-> NoResult]
    ELSE IF FeedUrlGet(Upper(ln)) = ""
    THEN [outcome |-> "return", exc |-> "", result |-> UnsupportedLine(Upper(ln))]
    ELSE IF Resolution(df, Upper(ln), name).outcome = "raise"
    THEN [outcome |-> "raise", exc |-> Resolution(df, Upper(ln), name).exc,
          result |-> NoResult]
    ELSE IF Resolution(df, Upper(ln), name).outcome = "return"
    THEN [outcome |-> "return", exc |-> "", result |-> StationNotFound(name)]
    ELSE IF ~ok
    THEN [outcome |-> "return", exc |-> "", result |-> FetchFailed]
    ELSE LET first == Candidates(df, Upper(ln), name)[1]
         IN  [outcome |-> "return", exc |-> "",
              result |-> Finish(Upper(ln), first.stop_name,
                                SortArrivals(ParseUpdates(StopTimeUpdates(feed),
                                                          first.stop_id, now)))]

\* Line 164: the system prompt.
SystemMessage ==
    [role |-> "system", text |-> "You are a helpful NYC transit assistant.",
     tool_calls |-> << >>, tool_call_id |-> << >>, name |-> "",
     response |-> NoResult]

\* Line 171.
UserMessage(user_input) ==
    [role |-> "user", text |-> user_input,
     tool_calls |-> << >>, tool_call_id |-> << >>, name |-> "",
     response |-> NoResult]

\* Line 186: the assistant's reply, with its tool calls.
AssistantMessage(calls) ==
    [role |-> "assistant", text |-> "",
     tool_calls |-> calls, tool_call_id |-> << >>, name |-> "",
     response |-> NoResult]

\* Lines 201-206.
ToolMessage(tool_call, function_response) ==
    [role |-> "tool", text |-> "",
     tool_calls |-> << >>, tool_call_id |-> tool_call.id, name |-> tool_call.name,
     response |-> function_response]

\* What a tool call of a reply can ask for: the tool with a supported and
\* an unsupported line, the tool without a line, arguments that are no
\* JSON, and a function the program does not have.
CallPool ==
    {[name |-> "get_subway_time", json_ok |-> TRUE,
      line |-> << "L" >>, station_name |-> << "u","n","i","o","n" >>],
     [name |-> "get_subway_time", json_ok |-> TRUE,
      line |-> << "x" >>, station_name |-> << "u","n","i","o","n" >>],
     [name |-> "get_subway_time", json_ok |-> TRUE,
      line |-> None, station_name |-> << "u","n","i","o","n" >>],
     [name |-> "get_subway_time", json_ok |-> FALSE,
      line |-> None, station_name |-> None],
     [name |-> "get_service_alerts", json_ok |-> TRUE,
      line |-> << "L" >>, station_name |-> << "u","n","i","o","n" >>]}

\* The tool calls of a reply: each call of cs with an id of its own.
WithIds(cs, turn) ==
    [k \in 1..Len(cs) |->
        [id |-> << turn, k >>, name |-> cs[k].name, json_ok |-> cs[k].json_ok,
         line |-> cs[k].line, station_name |-> cs[k].station_name]]

InitChat ==
    /\ pc = "import"
    /\ stops_env = UnionSqEnv
    /\ line_arg = << >>
    /\ station_name = << >>
    /\ fetch_ok = TRUE
    /\ payload = ScenarioFeed
    /\ ToolLocalsInit
    /\ ChatIdle

\* Lines 160-164: chat_with_mta() starts, once the module is loaded.
StartChat ==
    /\ pc = "call"
    /\ chat_pc = "off"
    /\ messages' = << SystemMessage >>
    /\ chat_pc' = "input"
    /\ UNCHANGED << tool_calls, call_index, sent, turns >>
    /\ UNCHANGED toolVars

\* Lines 167-171: read the user's line; quit and exit leave the loop.
UserInput ==
    /\ chat_pc = "input"
    /\ turns < MaxTurns
    /\ \E user_input \in {"quit", "When is the next L train at Union Square?"} :
          IF user_input = "quit"
          THEN /\ chat_pc' = "exited"
               /\ UNCHANGED << messages, turns >>
          ELSE /\ messages' = Append(messages, UserMessage(user_input))
               /\ turns' = turns + 1
               /\ chat_pc' = "first_request"
    /\ UNCHANGED << tool_calls, call_index, sent >>
    /\ UNCHANGED toolVars

\* Lines 174-186 and 214-215: the first completion.  A reply with tool
\* calls is appended; one without is printed.
FirstCompletion ==
    /\ chat_pc = "first_request"
    /\ \E cs \in SeqUpTo(CallPool, MaxCalls) :
          IF Len(cs) > 0
          THEN /\ tool_calls' = WithIds(cs, turns)
               /\ messages' = Append(messages, AssistantMessage(WithIds(cs, turns)))
               /\ call_index' = 1
               /\ chat_pc' = "dispatch"
          ELSE /\ tool_calls' = << >>
               /\ messages' = messages
               /\ call_index' = 0
               /\ chat_pc' = "input"
    /\ UNCHANGED << sent, turns >>
    /\ UNCHANGED toolVars

\* Lines 188-206: one pass of the for loop over the tool calls.
DispatchToolCall ==
    /\ chat_pc = "dispatch"
    /\ call_index <= Len(tool_calls)
    /\ \E ok \in BOOLEAN :
          LET tool_call == tool_calls[call_index]
              r == GetSubwayTime(STATIONS_DF, tool_call.line, tool_call.station_name,
                                 ok, payload, current_time)
          IN  IF ~tool_call.json_ok
              THEN /\ chat_pc' = "crashed"
                   /\ UNCHANGED << messages, call_index >>
              ELSE IF tool_call.name # "get_subway_time"
              THEN /\ call_index' = call_index + 1
                   /\ UNCHANGED << messages, chat_pc >>
              ELSE IF r.outcome = "raise"
              THEN /\ chat_pc' = "crashed"
                   /\ UNCHANGED << messages, call_index >>
              ELSE /\ messages' = Append(messages, ToolMessage(tool_call, r.result))
                   /\ call_index' = call_index + 1
                   /\ UNCHANGED chat_pc
    /\ UNCHANGED << tool_calls, sent, turns >>
    /\ UNCHANGED toolVars

\* Lines 209-213: the follow-up completion, sent the whole list.
SecondCompletion ==
    /\ chat_pc = "dispatch"
    /\ call_index > Len(tool_calls)
    /\ sent' = messages
    /\ chat_pc' = "input"
    /\ UNCHANGED << messages, tool_calls, call_index, turns >>
    /\ UNCHANGED toolVars

NextChat ==
    \/ LoadStations
    \/ StartChat
    \/ UserInput
    \/ FirstCompletion
    \/ DispatchToolCall
    \/ SecondCompletion

SpecChat ==
    InitChat /\ [][NextChat]_vars

\* ----------------------------------------------------------- properties

\* get_subway_time has ended: it returned, or an exception left it.
Ended ==
    pc \in {"done", "raised"}

\* The upper-cased line code is a key of FEED_URLS.
IsSupported(ln) ==
    /\ Len(ln) = 1
    /\ UpperChar(ln[1]) \in DOMAIN FEED_URLS

\* The step-by-step run and the one-call form of get_subway_time agree.
StepsAgree ==
    Ended =>
        LET r == GetSubwayTime(STATIONS_DF, line_arg, station_name, fetch_ok,
                               payload, current_time)
        IN  IF pc = "raised"
            THEN r.outcome = "raise" /\ r.exc = raised
            ELSE r.outcome = "return" /\ r.result = result

\* C1: a line whose upper-cased code is not in FEED_URLS gets the
\* unsupported-line error, whatever the table and the station name, and the
\* call ends before the station table is searched or the feed requested; the
\* error names the upper-cased code, so "x" and "X" give the same result.
C1_UnsupportedLineFirst ==
    ~IsSupported(line_arg) =>
        /\ lookups = 0
        /\ fetches = 0
        /\ pc \in {"import", "call", "done"}
        /\ pc = "done" =>
              /\ result.kind = "unsupported_line"
              /\ result.line = [i \in 1..Len(line_arg) |-> UpperChar(line_arg[i])]

\* C1 witness: the lower-case unsupported line "x" was refused although the
\* table had failed to load.
C1_Witness ==
    /\ pc = "done"
    /\ line_arg = << "x" >>
    /\ STATIONS_DF = EmptyDataFrame
    /\ ~stops_env.file_exists
    /\ ~stops_env.download_ok
    /\ result.kind = "unsupported_line"
    /\ result.line = << "X" >>

\* The table is empty or malformed: no rows, or a column missing.
EmptyOrMalformed(df) ==
    \/ Len(df.rows) = 0
    \/ df.cols # AllCols

\* C2: with an empty or malformed station table every query on a supported
\* line ends in the station-not-found result; no exception leaves
\* get_subway_time.  (Stated for the station names that compile as a
\* pattern, so that a violation is the table's doing alone.)
C2_Claim ==
    (/\ Ended
     /\ IsSupported(line_arg)
     /\ EmptyOrMalformed(STATIONS_DF)
     /\ ~RegexError(station_name)) =>
        /\ pc = "done"
        /\ result.kind = "station_not_found"

\* The records whose name contains station_name, case-insensitively, in
\* table order.
NameContains(df, name) ==
    Filter(df.rows,
           {i \in 1..Len(df.rows) :
               /\ df.rows[i].stop_name # NA
               /\ ContainsLiteral(df.rows[i].stop_name, name, TRUE)})

\* The record lists the line in its routes field.
ListsLine(rec, ln) ==
    /\ rec.routes # NA
    /\ ContainsLiteral(rec.routes, ln, FALSE)

\* The station table has been searched and get_subway_time has gone on or
\* ended.
AfterResolve ==
    /\ lookups = 1
    /\ pc \in {"fetch", "parse", "finish", "done", "raised"}

\* The table has its three columns, and the two that are searched hold text.
WellFormed(df) ==
    /\ df.cols = AllCols
    /\ IsTextColumn(df, "stop_name")
    /\ IsTextColumn(df, "routes")

\* C3: on a well-formed table and a supported line, when some record's name
\* contains station_name, case-insensitively, but none of those records
\* lists the line, the station resolves to the first of them in table
\* order; and station-not-found is returned only when no record's name
\* contains station_name.
C3_Claim ==
    (AfterResolve /\ WellFormed(STATIONS_DF)) =>
        LET named == NameContains(STATIONS_DF, station_name)
        IN  /\ (/\ Len(named) > 0
                /\ \A i \in 1..Len(named) : ~ListsLine(named[i], line))
               => /\ pc # "raised"
                  /\ result.kind # "station_not_found"
                  /\ stop_id = named[1].stop_id
                  /\ official_name = named[1].stop_name
            /\ result.kind = "station_not_found" => Len(named) = 0

\* The stop time updates of the feed of this call, in feed order.
FeedUpdates ==
    StopTimeUpdates(payload)

\* The arrival epoch of the update the arrival line x was made from.
EpochOf(x) ==
    FeedUpdates[x.src].arrival_time

\* minutes_until of the update the arrival line x was made from.
MinutesUntil(x) ==
    (EpochOf(x) - current_time) \div 60

\* The positions in the feed of the predictions that qualify: the stop
\* identifier starts with the resolved stop_id and the arrival lies ahead.
QualifyingPositions ==
    {k \in 1..Len(FeedUpdates) :
        /\ Len(stop_id) <= Len(FeedUpdates[k].stop_id)
        /\ SubSeq(FeedUpdates[k].stop_id, 1, Len(stop_id)) = stop_id
        /\ FeedUpdates[k].arrival_time > current_time}

\* The feed was fetched and decoded, and get_subway_time returned.
Extracted ==
    /\ pc = "done"
    /\ fetches = 1
    /\ fetch_ok

\* C4: the arrivals returned are in ascending order of minutes_until and
\* are at most five, however many predictions qualify and in whatever order
\* the feed lists them.
C4_SortedAndBounded ==
    result.kind = "arrivals" =>
        /\ Len(result.arrivals) <= Limit
        /\ \A i \in 1..Len(result.arrivals) : \A j \in 1..Len(result.arrivals) :
              i < j => MinutesUntil(result.arrivals[i]) <= MinutesUntil(result.arrivals[j])

\* C4 witness: more than five predictions qualified, the feed listed a later
\* one before an earlier one, and five arrivals were returned.
C4_Witness ==
    /\ result.kind = "arrivals"
    /\ Cardinality(QualifyingPositions) > Limit
    /\ Len(result.arrivals) = Limit
    /\ \E i \in 1..Len(result.arrivals) : \E j \in 1..Len(result.arrivals) :
          /\ i < j
          /\ result.arrivals[i].src > result.arrivals[j].src
          /\ MinutesUntil(result.arrivals[i]) < MinutesUntil(result.arrivals[j])

\* C5: every arrival returned was made from a prediction whose arrival
\* epoch is strictly greater than the reference time; a prediction whose
\* epoch is absent (0), equal to now or earlier is never among them.
C5_Fresh ==
    pc \in {"finish", "done"} =>
        /\ \A i \in 1..Len(arrivals) : EpochOf(arrivals[i]) > current_time
        /\ \A i \in 1..Len(result.arrivals) :
              EpochOf(result.arrivals[i]) > current_time
        /\ \A k \in 1..Len(FeedUpdates) :
              FeedUpdates[k].arrival_time <= current_time =>
                  \A i \in 1..Len(result.arrivals) : result.arrivals[i].src # k

\* C5 witness: one arrival was returned from a feed that listed, before
\* it and for the same stop, a prediction at exactly now.
C5_Witness ==
    /\ result.kind = "arrivals"
    /\ Len(result.arrivals) = 1
    /\ Len(FeedUpdates) = 2
    /\ FeedUpdates[1].arrival_time = current_time
    /\ StartsWith(FeedUpdates[1].stop_id, stop_id)
    /\ result.arrivals[1].src = 2

\* C6: when the line is supported, the station resolved and the feed
\* decoded but no prediction qualifies, the result is the no-arrivals status
\* with the resolved station name and the line, not an error and not an
\* empty arrivals list; and an arrivals result never has an empty list.
C6_NoArrivalsStatus ==
    /\ (Extracted /\ QualifyingPositions = {}) =>
          /\ result.kind = "no_arrivals"
          /\ result.station = official_name
          /\ result.line = [i \in 1..Len(line_arg) |-> UpperChar(line_arg[i])]
          /\ result.arrivals = << >>
    /\ result.kind = "arrivals" => Len(result.arrivals) > 0
    /\ (Extracted /\ QualifyingPositions # {}) => result.kind = "arrivals"

\* C6 witness: the feed held predictions for the stop, all of them at or
\* before now, and the no-arrivals status was returned.
C6_Witness ==
    /\ Extracted
    /\ result.kind = "no_arrivals"
    /\ result.station = << "U","n","i","o","n"," ","S","q" >>
    /\ \E k \in 1..Len(FeedUpdates) :
          /\ StartsWith(FeedUpdates[k].stop_id, stop_id)
          /\ FeedUpdates[k].arrival_time = current_time
    /\ \E k \in 1..Len(FeedUpdates) :
          /\ StartsWith(FeedUpdates[k].stop_id, stop_id)
          /\ FeedUpdates[k].arrival_time = current_time - 60

\* The arrival line the claim describes for the prediction at position k:
\* the direction by the suffix (either one for another suffix), then "in",
\* floor((arrival_epoch - now) / 60), "min".
DescribedLine(text, k) ==
    LET sid == FeedUpdates[k].stop_id
        m == (FeedUpdates[k].arrival_time - current_time) \div 60
    IN  /\ Len(text) = 4
        /\ text[1] \in {"Northbound", "Southbound"}
        /\ sid[Len(sid)] = "N" => text[1] = "Northbound"
        /\ sid[Len(sid)] = "S" => text[1] = "Southbound"
        /\ text[2] = "in"
        /\ text[3] = DecStr(m)
        /\ text[4] = "min"

\* C7: when at most five predictions qualify, the arrivals list has exactly
\* one line per qualifying prediction and no other, each "{direction} in {m}
\* min" with m = floor((arrival_epoch - now) / 60), Northbound for the suffix
\* N and Southbound for S; 635N at now+300 and 635S at now+120 give
\* "Southbound in 2 min", "Northbound in 5 min".
C7_OneLinePerPrediction ==
    /\ (result.kind = "arrivals" /\ Cardinality(QualifyingPositions) <= Limit) =>
          /\ Len(result.arrivals) = Cardinality(QualifyingPositions)
          /\ \A k \in QualifyingPositions :
                \E i \in 1..Len(result.arrivals) : result.arrivals[i].src = k
          /\ \A i \in 1..Len(result.arrivals) :
                /\ result.arrivals[i].src \in QualifyingPositions
                /\ DescribedLine(result.arrivals[i].text, result.arrivals[i].src)
    /\ (Extracted /\ payload = ScenarioFeed /\ stop_id = << "6","3","5" >>) =>
          /\ result.kind = "arrivals"
          /\ [i \in 1..Len(result.arrivals) |-> result.arrivals[i].text] =
                << << "Southbound", "in", << "2" >>, "min" >>,
                   << "Northbound", "in", << "5" >>, "min" >> >>

\* C7 witness: the scenario feed was extracted for stop 635.
C7_Witness ==
    /\ Extracted
    /\ payload = ScenarioFeed
    /\ stop_id = << "6","3","5" >>
    /\ Len(result.arrivals) = 2

\* C7 witness of a two-digit number of minutes: a line "... in 10 min".
C7_TwoDigits ==
    /\ result.kind = "arrivals"
    /\ \E i \in 1..Len(result.arrivals) :
          result.arrivals[i].text[3] = << "1", "0" >>

\* C8 as stated: the arrivals returned are in non-decreasing order of
\* arrival_epoch, and when more than five predictions qualify no prediction
\* left out has a smaller arrival_epoch than one returned.
C8_Original ==
    result.kind = "arrivals" =>
        /\ \A i \in 1..Len(result.arrivals) : \A j \in 1..Len(result.arrivals) :
              i < j => EpochOf(result.arrivals[i]) <= EpochOf(result.arrivals[j])
        /\ \A k \in QualifyingPositions :
              (\A i \in 1..Len(result.arrivals) : result.arrivals[i].src # k) =>
                  \A i \in 1..Len(result.arrivals) :
                      EpochOf(result.arrivals[i]) <= FeedUpdates[k].arrival_time

\* Line x comes before the prediction at position k in the order of the
\* sort: fewer minutes, or the same minutes and earlier in the feed.
Before(x, k) ==
    LET mk == (FeedUpdates[k].arrival_time - current_time) \div 60
    IN  \/ MinutesUntil(x) < mk
        \/ MinutesUntil(x) = mk /\ x.src < k

\* C8 amended: the arrivals returned are ordered by minutes_until, those of
\* one minute in feed order, so their arrival_epoch decreases only within
\* one minute; and when more than five predictions qualify the five
\* returned come before every one left out in that order.
C8_ByMinutesThenFeedOrder ==
    result.kind = "arrivals" =>
        /\ \A i \in 1..Len(result.arrivals) : \A j \in 1..Len(result.arrivals) :
              i < j =>
                  /\ Before(result.arrivals[i], result.arrivals[j].src)
                  /\ EpochOf(result.arrivals[i]) > EpochOf(result.arrivals[j]) =>
                        MinutesUntil(result.arrivals[i]) = MinutesUntil(result.arrivals[j])
        /\ \A k \in QualifyingPositions :
              (\A i \in 1..Len(result.arrivals) : result.arrivals[i].src # k) =>
                  /\ Cardinality(QualifyingPositions) > Limit
                  /\ \A i \in 1..Len(result.arrivals) : Before(result.arrivals[i], k)

\* C8 witness: more than five predictions qualified, two of the same minute
\* were returned with the later epoch first, and one left out has a smaller
\* epoch than one returned.
C8_Witness ==
    /\ result.kind = "arrivals"
    /\ Cardinality(QualifyingPositions) > Limit
    /\ \E i \in 1..Len(result.arrivals) :
          /\ i < Len(result.arrivals)
          /\ EpochOf(result.arrivals[i]) > EpochOf(result.arrivals[i + 1])
    /\ \E k \in QualifyingPositions :
          /\ \A i \in 1..Len(result.arrivals) : result.arrivals[i].src # k
          /\ \E i \in 1..Len(result.arrivals) :
                EpochOf(result.arrivals[i]) > FeedUpdates[k].arrival_time

\* C9: no arrival returned as Northbound comes from a stop identifier that
\* does not end in N, and none returned as Southbound from one that does
\* not end in S.
C9_Claim ==
    result.kind = "arrivals" =>
        \A i \in 1..Len(result.arrivals) :
            LET sid == FeedUpdates[result.arrivals[i].src].stop_id
            IN  /\ result.arrivals[i].text[1] = "Northbound" => sid[Len(sid)] = "N"
                /\ result.arrivals[i].text[1] = "Southbound" => sid[Len(sid)] = "S"

\* The position of the last assistant message of ms (0 if there is none).
LastAssistant(ms) ==
    IF \E a \in 1..Len(ms) : ms[a].role = "assistant"
    THEN CHOOSE a \in 1..Len(ms) :
            /\ ms[a].role = "assistant"
            /\ \A b \in (a + 1)..Len(ms) : ms[b].role # "assistant"
    ELSE 0

\* After the last assistant reply of ms there is exactly one tool message
\* per tool call of the reply, in the reply's order, with the call's id.
AnswersEveryCall(ms) ==
    LET a == LastAssistant(ms)
    IN  /\ a > 0
        /\ Len(ms) - a = Len(ms[a].tool_calls)
        /\ \A k \in 1..(Len(ms) - a) :
              /\ ms[a + k].role = "tool"
              /\ k <= Len(ms[a].tool_calls)
              /\ ms[a + k].tool_call_id = ms[a].tool_calls[k].id

IsPrefix(s, t) ==
    /\ Len(s) <= Len(t)
    /\ SubSeq(t, 1, Len(s)) = s

\* C10: the list sent with every follow-up completion request answers each
\* tool call of the reply with one tool message, whatever function the call
\* names; and every step of the conversation only appends to the list and
\* leaves the system prompt first.
C10_Claim ==
    [][/\ sent' # sent => AnswersEveryCall(sent')
       /\ Len(messages) > 0 =>
             /\ IsPrefix(messages, messages')
             /\ messages'[1] = SystemMessage]_vars

\* The part of C10 the program keeps: the list only grows and the system
\* prompt stays first.
C10_AppendOnly ==
    [][Len(messages) > 0 =>
          /\ IsPrefix(messages, messages')
          /\ messages'[1] = SystemMessage]_vars

\* A follow-up request went out after a reply of MaxCalls tool calls that
\* were all answered.
C10_AnsweredTurn ==
    /\ sent # << >>
    /\ AnswersEveryCall(sent)
    /\ Len(tool_calls) = MaxCalls

=============================================================================
